---- MODULE Spec2Model ----
(***************************************************************************)
(* cImpute (conditional imputation): a state-machine model of              *)
(* src/c_impute/c_impute.py.                                               *)
(*                                                                         *)
(* Numbers.  An intensity is an integer; a missing cell (np.nan) is the    *)
(* cell NaN.  loc_up_mnar, std_factor, up_mnar and std are fractions       *)
(* <<numerator, denominator>> with a positive denominator, and <<0, 0>>    *)
(* is nan.  A confidence score, rounded by the code to 2 decimals, is held *)
(* in hundredths (0.67 is 67), and so is min_cs.                           *)
(*                                                                         *)
(* Rows are named by their position: the index of the table is the unique  *)
(* RangeIndex a table read from a file has.                                *)
(***************************************************************************)
EXTENDS Integers, Sequences, FiniteSets, TLC

\* ------------------------------------------------------------- bounds
MaxRows == 2          \* a table has 1..MaxRows feature rows
MaxMissing == 3       \* at most MaxMissing cells of an input table are missing

\* ---------------------------------------------------------- constants
NaN == -1
STR_MCAR == "MCAR"
STR_MNAR == "MNAR"
STR_MAR == "MAR"
STR_NM == "NM"
LIST_MV_CLASSES == <<STR_MCAR, STR_MNAR, STR_MAR, STR_NM>>

\* ------------------------------------------------------------- inputs
\* dict_group_cols: group A holds columns 1..3, group B holds column 4.
dict_group_cols == <<  <<1, 2, 3>>, <<4>>  >>
NGroups == Len(dict_group_cols)

\* What an input cell may hold: the intensity 2 or 6, or nothing, in the first
\* column of each group; 6 or nothing in the other columns.
CellsLowHigh == {2, 6, NaN}
CellsHigh == {6, NaN}
InputRows ==
    { <<a, b, c, d>> : a \in CellsLowHigh, b \in CellsHigh, c \in CellsHigh, d \in CellsLowHigh }
Missing(table) == { <<i, j>> \in (1..Len(table)) \X (1..Len(table[1])) : table[i][j] = NaN }
InputTables ==
    { t \in UNION { [1..r -> InputRows] : r \in 1..MaxRows } :
        Cardinality(Missing(t)) <= MaxMissing }

\* Configurations inside the documented domain ...
LocValid == { <<0, 1>>, <<1, 2>> }
StdDefault == { <<1, 2>> }
StdValid == { <<1, 2>>, <<3, 2>> }
MinCsValid == {0, 50}
NeighborsValid == {2}
\* ... and outside it.
LocAny == LocValid \cup { <<-1, 2>>, <<3, 2>> }
StdAny == StdValid \cup { <<-1, 2>>, <<0, 1>> }
MinCsAny == MinCsValid \cup {-50, 150}
NeighborsAny == {0, 1, 2}

\* -------------------------------------------------------------- state
VARIABLES
    df,               \* the table given to run (rows x all columns)
    loc_up_mnar, min_cs, std_factor, n_neigbhors,   \* run's arguments
    pc,               \* where run stands
    err,              \* who raised, when pc = "error"
    d_min, up_mnar,   \* get_up_mnar's result
    g,                \* the group the loop of run is at
    df_group,         \* the group's block, as impute works on it
    mv_classes,       \* classify_of_mvs' result for the group
    list_cs,          \* compute_cs' result for the group
    k,                \* the class impute's loop is at (into LIST_MV_CLASSES)
    call,             \* the last call of _impute: class, block passed, block returned
    list_df_groups, list_mv_classes, cs_vals,       \* run's accumulators
    df_imputed,       \* <<the table run returned>>, <<>> before it returns
    runs,             \* how many times run was called
    first             \* <<what the first run took and returned>>, for a second run

vars == <<df, loc_up_mnar, min_cs, std_factor, n_neigbhors, pc, err, d_min, up_mnar, g,
          df_group, mv_classes, list_cs, k, call, list_df_groups, list_mv_classes,
          cs_vals, df_imputed, runs, first>>

\* ------------------------------------------------------------ helpers
SetMin(S) == CHOOSE x \in S : \A y \in S : x <= y
SetMax(S) == CHOOSE x \in S : \A y \in S : x >= y

RECURSIVE SetSum(_, _)
SetSum(f, S) == IF S = {} THEN 0
                ELSE LET x == CHOOSE y \in S : TRUE IN f[x] + SetSum(f, S \ {x})

\* row > up_mnar and row <= up_mnar, cell by cell: False on a nan side.
Gt(v, q) == v # NaN /\ q[2] # 0 /\ v * q[2] > q[1]
Le(v, q) == v # NaN /\ q[2] # 0 /\ v * q[2] <= q[1]

\* df[cols]
Columns(table, cols) ==
    [i \in 1..Len(table) |-> [j \in 1..Len(cols) |-> table[i][cols[j]]]]

\* get_all_group_cols
get_all_group_cols ==
    LET RECURSIVE Ext(_)
        Ext(i) == IF i = 0 THEN <<>> ELSE Ext(i - 1) \o dict_group_cols[i]
    IN Ext(NGroups)

Observed(table) ==
    { table[i][j] : i \in 1..Len(table), j \in 1..(IF Len(table) = 0 THEN 0 ELSE Len(table[1])) }
        \ {NaN}

\* (mutant) the bound placed at loc_up_mnar of d_max instead of the detection range.
get_up_mnar_of_max(table, loc) ==
    LET obs == Observed(table) IN
    IF obs = {} THEN <<NaN, <<0, 0>> >>
    ELSE <<SetMin(obs), <<loc[2] * SetMin(obs) + loc[1] * SetMax(obs), loc[2]>> >>

\* get_up_mnar: <<d_min, up_mnar>>; both nan when no cell is observed.
get_up_mnar(table, loc) ==
    LET obs == Observed(table) IN
    IF obs = {} THEN <<NaN, <<0, 0>> >>
    ELSE LET dmin == SetMin(obs)
             dmax == SetMax(obs)
             dr == dmax - dmin
         IN <<dmin, <<loc[2] * dmin + loc[1] * dr, loc[2]>> >>

\* ------------------------------------------------------ classification
n_nan(row) == Cardinality({j \in DOMAIN row : row[j] = NaN})
n_higher_up_mnar(row, up) == Cardinality({j \in DOMAIN row : Gt(row[j], up)})
n_lower_or_equal_up_mnar(row, up) == Cardinality({j \in DOMAIN row : Le(row[j], up)})

\* (mutant) a dedicated "nothing missing" check placed first.
classify_row_nm_first(row, up, n_groups) ==
    IF n_nan(row) = 0 THEN STR_NM
    ELSE IF n_lower_or_equal_up_mnar(row, up) + n_nan(row) = n_groups THEN STR_MNAR
    ELSE IF n_higher_up_mnar(row, up) + n_nan(row) = n_groups THEN STR_MCAR
    ELSE STR_MAR

classify_row(row, up, n_groups) ==
    IF n_lower_or_equal_up_mnar(row, up) + n_nan(row) = n_groups THEN STR_MNAR
    ELSE IF n_higher_up_mnar(row, up) + n_nan(row) = n_groups THEN STR_MCAR
    ELSE IF n_higher_up_mnar(row, up) + n_lower_or_equal_up_mnar(row, up) = n_groups THEN STR_NM
    ELSE STR_MAR

classify_of_mvs(block, up, n_groups) ==
    [i \in 1..Len(block) |-> classify_row(block[i], up, n_groups)]

\* ------------------------------------------------------------- scoring
\* p / q as the code computes it, a binary double (53 significant bits, to the
\* nearest, a tie to the even mantissa): 1 when the double lies above the exact
\* quotient, -1 when below, 0 when the quotient is a double.  RoundedBits
\* develops the bits that follow the leading one; r / b is what is left of the
\* quotient below the bits developed so far, last the last bit developed.
RECURSIVE RoundedBits(_, _, _, _)
RoundedBits(r, b, bits, last) ==
    IF r = 0 THEN 0
    ELSE IF bits = 0
         THEN IF 2 * r > b THEN 1
              ELSE IF 2 * r < b THEN -1
              ELSE IF last = 1 THEN 1 ELSE -1
    ELSE IF 2 * r >= b THEN RoundedBits(2 * r - b, b, bits - 1, 1)
    ELSE RoundedBits(2 * r, b, bits - 1, 0)

RECURSIVE float_div_side(_, _)
float_div_side(p, q) ==
    IF p = 0 THEN 0
    ELSE IF p < q THEN float_div_side(2 * p, q)
    ELSE IF p >= 2 * q THEN float_div_side(p, 2 * q)
    ELSE RoundedBits(p - q, q, 52, 1)

\* round(p / q, 2) in hundredths, for 0 <= p and 0 < q.  round gives the
\* hundredth nearest to the double p / q, a tie to the even one.  The double is
\* nearer to the exact quotient than to any hundredth or half hundredth the
\* quotient differs from, so the exact quotient decides, but for a quotient at a
\* half hundredth: there the side of the double decides (1/40 is 0.03, 3/200 is
\* 0.01), and the even one when the double is exact (1/8 is 0.12).
Round2(p, q) ==
    LET lo == (100 * p) \div q
        rem == (100 * p) % q
    IN IF 2 * rem < q THEN lo
       ELSE IF 2 * rem > q THEN lo + 1
       ELSE LET side == float_div_side(p, q) IN
            IF side > 0 THEN lo + 1
            ELSE IF side < 0 THEN lo
            ELSE IF lo % 2 = 0 THEN lo ELSE lo + 1

\* (mutant) the fractions of MCAR and MNAR exchanged.
_compute_cs_exchanged(vals, mv_class, n) ==
    IF mv_class = STR_NM THEN 100
    ELSE IF mv_class = STR_MAR THEN 0
    ELSE IF mv_class = STR_MCAR THEN Round2(n_nan(vals), n)
    ELSE Round2(n - n_nan(vals), n)

_compute_cs(vals, mv_class, n) ==
    IF mv_class = STR_NM THEN 100
    ELSE IF mv_class = STR_MAR THEN 0
    ELSE IF mv_class = STR_MCAR THEN Round2(n - n_nan(vals), n)
    ELSE Round2(n_nan(vals), n)

\* dict_prot_cs is keyed by the row's (unique) index label; list_cs reads it
\* back in index order.
compute_cs(block, classes, n) ==
    [i \in 1..Len(block) |-> _compute_cs(block[i], classes[i], n)]

\* ------------------------------------------------------------ imputers
\* What a call returns: the block, or the exception it raised.
Returned(block) == [ok |-> TRUE, raised |-> "", df |-> block]
Raised(who) == [ok |-> FALSE, raised |-> who, df |-> <<>>]

\* df.isnull(): the cells of a block that are missing.
isnull(block) ==
    { <<p, j>> \in (1..Len(block)) \X (1..(IF Len(block) = 0 THEN 0 ELSE Len(block[1]))) :
        block[p][j] = NaN }

\* df[mask] = vals: f's value at the masked cells, the block's at the others.
Fill(block, f) ==
    [p \in 1..Len(block) |->
        [j \in 1..Len(block[p]) |-> IF block[p][j] = NaN THEN f[<<p, j>>] ELSE block[p][j]]]

\* (mutant) std_factor left out.
StdOf_no_factor(dmin, up, sf) ==
    IF up[2] = 0 THEN <<0, 0>>
    ELSE <<(up[1] - up[2] * dmin), up[2]>>

\* std = (up_mnar - d_min) * std_factor, a fraction; nan when up_mnar is.
StdOf(dmin, up, sf) ==
    IF up[2] = 0 THEN <<0, 0>>
    ELSE <<(up[1] - up[2] * dmin) * sf[1], up[2] * sf[2]>>

\* truncnorm.rvs(a=0, b=1, loc=d_min, scale=std): loc + z * scale for a draw z of
\* the standard normal truncated to [a, b] = [0, 1], so any value from loc + 0 * scale
\* to loc + 1 * scale; the draws are the integers of that interval.  scale = 0
\* gives loc.
truncnorm_rvs(dmin, std) ==
    { v \in dmin..(dmin + std[1] \div std[2]) :
        /\ v * std[2] >= (dmin + 0) * std[2]
        /\ v * std[2] <= dmin * std[2] + 1 * std[1] }

\* (mutant) df[:] = vals: the mask left out, every cell takes its draw.
_impute_mnr_no_mask(block, sf, dmin, up) ==
    LET std == StdOf(dmin, up, sf)
        cells == (1..Len(block)) \X (1..(IF Len(block) = 0 THEN 0 ELSE Len(block[1])))
    IN
    IF std[2] = 0 \/ std[1] < 0 THEN {Raised("truncnorm.rvs")}
    ELSE { Returned([p \in 1..Len(block) |-> [j \in 1..Len(block[p]) |-> f[<<p, j>>]]]) :
             f \in [cells -> truncnorm_rvs(dmin, std)] }

\* _impute_mnr: the outcomes of one call.  rvs raises ValueError unless scale >= 0
\* (a negative or nan scale).  The draws of the cells that are not missing are
\* dropped by the mask, so only the missing cells' draws are chosen.
_impute_mnr(block, sf, dmin, up) ==
    LET std == StdOf(dmin, up, sf) IN
    IF std[2] = 0 \/ std[1] < 0 THEN {Raised("truncnorm.rvs")}
    ELSE { Returned(Fill(block, f)) : f \in [isnull(block) -> truncnorm_rvs(dmin, std)] }

\* KNNImputer: a missing cell of column j becomes the mean of the values that
\* nearest rows of the block hold in column j (uniform weights).  Which rows are
\* nearest is left open (ties and nan distances are broken by the library): the
\* mean is over some non-empty set of at most n_neighbors donors, or over all
\* donors of the column (the column mean, when no distance is defined).  The
\* intensities of CellsLowHigh are both even, so the mean of one or two donors
\* is whole.
knn_fills(block, j, nn) ==
    LET donors == {p \in 1..Len(block) : block[p][j] # NaN}
        col == [p \in donors |-> block[p][j]]
    IN { SetSum(col, S) \div Cardinality(S) :
            S \in { T \in (SUBSET donors) \ {{}} : Cardinality(T) <= nn \/ T = donors } }

\* _impute_mcar: KNNImputer raises on n_neighbors <= 0 and on a block of no rows;
\* it drops a column that is missing in every row of the block, and then
\* pd.DataFrame(X, columns=cols) raises on the shape.
_impute_mcar(block, nn) ==
    IF nn <= 0 \/ Len(block) = 0 THEN {Raised("KNNImputer")}
    ELSE IF \E j \in 1..Len(block[1]) : \A p \in 1..Len(block) : block[p][j] = NaN
         THEN {Raised("DataFrame")}
    ELSE LET miss == isnull(block)
             all == UNION { knn_fills(block, c[2], nn) : c \in miss }
         IN { Returned(Fill(block, f)) :
                f \in { h \in [miss -> all] : \A c \in miss : h[c] \in knn_fills(block, c[2], nn) } }

\* (mutant) MNAR rows returned as passed, their missing cells left missing.
_impute_mnar_kept(block, mv_class, dmin, up, sf, nn) ==
    IF mv_class = STR_MCAR THEN _impute_mcar(block, nn)
    ELSE {Returned(block)}

\* (mutant) MAR rows sent to the left-censored fill.
_impute_mar_filled(block, mv_class, dmin, up, sf, nn) ==
    IF mv_class = STR_NM THEN {Returned(block)}
    ELSE IF mv_class = STR_MCAR THEN _impute_mcar(block, nn)
    ELSE _impute_mnr(block, sf, dmin, up)

_impute(block, mv_class, dmin, up, sf, nn) ==
    IF mv_class = STR_NM THEN {Returned(block)}
    ELSE IF mv_class = STR_MAR THEN {Returned(block)}
    ELSE IF mv_class = STR_MCAR THEN _impute_mcar(block, nn)
    ELSE _impute_mnr(block, sf, dmin, up)

\* (mutant) the confidence threshold left out of the mask.
impute_mask_no_cs(classes, scores, mv_class, mincs) ==
    [i \in 1..Len(classes) |-> classes[i] = mv_class]

\* impute's row mask for one class.
impute_mask(classes, scores, mv_class, mincs) ==
    [i \in 1..Len(classes) |-> classes[i] = mv_class /\ scores[i] >= mincs]

\* df_group[mask]: the masked rows, in row order.
MaskRank(mask, i) == Cardinality({h \in 1..i : mask[h]})
Masked(block, mask) ==
    [p \in 1..MaskRank(mask, Len(mask)) |->
        block[CHOOSE i \in 1..Len(mask) : mask[i] /\ MaskRank(mask, i) = p]]

\* df_group[mask] = value: the masked rows replaced, in row order.
SetMasked(block, mask, value) ==
    [i \in 1..Len(block) |-> IF mask[i] THEN value[MaskRank(mask, i)] ELSE block[i]]

\* (mutant) the groups' blocks put side by side last group first.
concat_last_first(blocks, nrows) ==
    LET RECURSIVE Cat(_, _)
        Cat(i, h) == IF h > Len(blocks) THEN <<>> ELSE Cat(i, h + 1) \o blocks[h][i]
    IN [i \in 1..nrows |-> Cat(i, 1)]

\* pd.concat(list_df_groups, axis=1)
concat(blocks, nrows) ==
    LET RECURSIVE Cat(_, _)
        Cat(i, h) == IF h = 0 THEN <<>> ELSE Cat(i, h - 1) \o blocks[h][i]
    IN [i \in 1..nrows |-> Cat(i, Len(blocks))]

\* -------------------------------------------------------------- actions
NoCall == [mv_class |-> "", df |-> <<>>, ret |-> <<>>]

Fresh ==
    /\ pc = "start" /\ err = ""
    /\ d_min = NaN /\ up_mnar = <<0, 0>>
    /\ g = 0 /\ df_group = <<>> /\ mv_classes = <<>> /\ list_cs = <<>> /\ k = 0
    /\ call = NoCall
    /\ list_df_groups = <<>> /\ list_mv_classes = <<>> /\ cs_vals = <<>>
    /\ df_imputed = <<>>

\* run is called with a configuration inside the documented domain, std_factor at
\* the default of _impute_mnr.
Init ==
    /\ df \in InputTables
    /\ loc_up_mnar \in LocValid /\ min_cs \in MinCsValid
    /\ std_factor \in StdDefault /\ n_neigbhors \in NeighborsValid
    /\ runs = 1 /\ first = <<>>
    /\ Fresh

\* run is called with a configuration inside the documented domain, std_factor
\* below or above 1.
InitStd ==
    /\ df \in InputTables
    /\ loc_up_mnar \in LocValid /\ min_cs \in MinCsValid
    /\ std_factor \in StdValid /\ n_neigbhors \in NeighborsValid
    /\ runs = 1 /\ first = <<>>
    /\ Fresh

\* run is called with any configuration.
InitAny ==
    /\ df \in InputTables
    /\ loc_up_mnar \in LocAny /\ min_cs \in MinCsAny
    /\ std_factor \in StdAny /\ n_neigbhors \in NeighborsAny
    /\ runs = 1 /\ first = <<>>
    /\ Fresh

\* run, up to its loop: the limits of the whole data set.
Limits ==
    /\ pc = "start"
    /\ LET lim == get_up_mnar(Columns(df, get_all_group_cols), loc_up_mnar) IN
        /\ d_min' = lim[1]
        /\ up_mnar' = lim[2]
    /\ g' = 1
    /\ pc' = "classify"
    /\ UNCHANGED <<df, loc_up_mnar, min_cs, std_factor, n_neigbhors, err, df_group,
                   mv_classes, list_cs, k, call, list_df_groups, list_mv_classes,
                   cs_vals, df_imputed, runs, first>>

\* df_group = df[cols]; mv_classes = classify_of_mvs(...)
Classify ==
    /\ pc = "classify"
    /\ LET cols == dict_group_cols[g] IN
        /\ df_group' = Columns(df, cols)
        /\ mv_classes' = classify_of_mvs(Columns(df, cols), up_mnar, Len(cols))
    /\ pc' = "score"
    /\ UNCHANGED <<df, loc_up_mnar, min_cs, std_factor, n_neigbhors, err, d_min, up_mnar,
                   g, list_cs, k, call, list_df_groups, list_mv_classes, cs_vals,
                   df_imputed, runs, first>>

\* list_cs = compute_cs(...)
Score ==
    /\ pc = "score"
    /\ list_cs' = compute_cs(df_group, mv_classes, Len(dict_group_cols[g]))
    /\ k' = 1
    /\ pc' = "impute"
    /\ UNCHANGED <<df, loc_up_mnar, min_cs, std_factor, n_neigbhors, err, d_min, up_mnar,
                   g, df_group, mv_classes, call, list_df_groups, list_mv_classes,
                   cs_vals, df_imputed, runs, first>>

\* impute: one turn of its loop over LIST_MV_CLASSES.  An exception of the
\* imputer ends run.
ImputeClass ==
    /\ pc = "impute"
    /\ LET mv_class == LIST_MV_CLASSES[k]
           mask == impute_mask(mv_classes, list_cs, mv_class, min_cs)
           block == Masked(df_group, mask)
       IN \E o \in _impute(block, mv_class, d_min, up_mnar, std_factor, n_neigbhors) :
            IF o.ok
            THEN /\ df_group' = SetMasked(df_group, mask, o.df)
                 /\ call' = [mv_class |-> mv_class, df |-> block, ret |-> o.df]
                 /\ k' = IF k < Len(LIST_MV_CLASSES) THEN k + 1 ELSE k
                 /\ pc' = IF k < Len(LIST_MV_CLASSES) THEN "impute" ELSE "append"
                 /\ err' = err
            ELSE /\ pc' = "error"
                 /\ err' = o.raised
                 /\ UNCHANGED <<df_group, call, k>>
    /\ UNCHANGED <<df, loc_up_mnar, min_cs, std_factor, n_neigbhors, d_min, up_mnar, g,
                   mv_classes, list_cs, list_df_groups, list_mv_classes, cs_vals,
                   df_imputed, runs, first>>

\* run: the group's results are appended; the loop goes on or ends.
AppendGroup ==
    /\ pc = "append"
    /\ list_df_groups' = Append(list_df_groups, df_group)
    /\ list_mv_classes' = Append(list_mv_classes, mv_classes)
    /\ cs_vals' = Append(cs_vals, list_cs)
    /\ g' = IF g < NGroups THEN g + 1 ELSE g
    /\ pc' = IF g < NGroups THEN "classify" ELSE "merge"
    /\ UNCHANGED <<df, loc_up_mnar, min_cs, std_factor, n_neigbhors, err, d_min, up_mnar,
                   df_group, mv_classes, list_cs, k, call, df_imputed, runs, first>>

\* ------------------------------------------------- float64 arithmetic
\* CS_MEAN and CS_STD are computed by numpy on float64 values; their second
\* decimal depends on the roundings of that arithmetic.  A natural number is held
\* as its digits to the base 1024, lowest first (<<>> is 0); a float64 value,
\* never negative here, is [m, e] for m * 2^e with m of at most 53 bits (or 2^53).
Base == 1024
BaseBits == 10
MantissaBits == 53

RECURSIVE ToNat(_)
ToNat(n) == IF n = 0 THEN <<>> ELSE <<n % Base>> \o ToNat(n \div Base)

RECURSIVE ToInt(_)
ToInt(A) == IF A = <<>> THEN 0 ELSE Head(A) + Base * ToInt(Tail(A))

RECURSIVE Norm(_)
Norm(A) == IF A = <<>> \/ A[Len(A)] # 0 THEN A ELSE Norm(SubSeq(A, 1, Len(A) - 1))

\* The number of bits of A.
BitLen(A) ==
    LET digits == Norm(A)
        top == digits[Len(digits)]
    IN IF digits = <<>> THEN 0
       ELSE BaseBits * (Len(digits) - 1)
              + (CHOOSE b \in 1..BaseBits : 2^(b - 1) <= top /\ top < 2^b)

RECURSIVE AddC(_, _, _)
AddC(A, B, c) ==
    IF A = <<>> /\ B = <<>> THEN (IF c = 0 THEN <<>> ELSE <<c>>)
    ELSE LET s == (IF A = <<>> THEN 0 ELSE Head(A)) + (IF B = <<>> THEN 0 ELSE Head(B)) + c
         IN <<s % Base>> \o AddC(IF A = <<>> THEN A ELSE Tail(A),
                                 IF B = <<>> THEN B ELSE Tail(B), s \div Base)

NatAdd(A, B) == AddC(A, B, 0)

\* A - B for A >= B.
RECURSIVE SubC(_, _, _)
SubC(A, B, c) ==
    IF A = <<>> THEN <<>>
    ELSE LET d == Head(A) - (IF B = <<>> THEN 0 ELSE Head(B)) - c
         IN <<d % Base>> \o SubC(Tail(A), IF B = <<>> THEN B ELSE Tail(B),
                                 IF d < 0 THEN 1 ELSE 0)

NatSub(A, B) == Norm(SubC(A, B, 0))

RECURSIVE GeFrom(_, _, _)
GeFrom(A, B, i) ==
    IF i = 0 THEN TRUE
    ELSE IF A[i] # B[i] THEN A[i] > B[i]
    ELSE GeFrom(A, B, i - 1)

\* A >= B
NatGe(A, B) ==
    LET left == Norm(A)
        right == Norm(B)
    IN IF Len(left) # Len(right) THEN Len(left) > Len(right)
       ELSE GeFrom(left, right, Len(left))

\* A * f + c for a small number f.
RECURSIVE MulC(_, _, _)
MulC(A, f, c) ==
    IF A = <<>> THEN ToNat(c)
    ELSE LET p == Head(A) * f + c
         IN <<p % Base>> \o MulC(Tail(A), f, p \div Base)

NatMulSmall(A, f) == Norm(MulC(A, f, 0))

RECURSIVE NatMul(_, _)
NatMul(A, B) ==
    IF B = <<>> THEN <<>>
    ELSE NatAdd(NatMulSmall(A, Head(B)), <<0>> \o NatMul(A, Tail(B)))

\* A divided by the small number f: [q, r], quotient and remainder.
RECURSIVE NatDivSmall(_, _)
NatDivSmall(A, f) ==
    IF A = <<>> THEN [q |-> <<>>, r |-> 0]
    ELSE LET high == NatDivSmall(Tail(A), f)
             t == Base * high.r + Head(A)
         IN [q |-> <<t \div f>> \o high.q, r |-> t % f]

\* A * 2^bits
NatShl(A, bits) ==
    [i \in 1..(bits \div BaseBits) |-> 0] \o NatMulSmall(A, 2^(bits % BaseBits))

\* A \div 2^bits: [q, rest], the quotient and whether a bit shifted out is set.
NatShr(A, bits) ==
    LET digits == Norm(A)
        whole == bits \div BaseBits
        high == NatDivSmall(SubSeq(digits, whole + 1, Len(digits)), 2^(bits % BaseBits))
    IN [q |-> Norm(high.q),
        rest |-> high.r # 0 \/ \E i \in 1..whole : i <= Len(digits) /\ digits[i] # 0]

\* The integer square root of A: [s, r] with A = s^2 + r.  One digit of A (10
\* bits) gives 5 bits of the root.
RECURSIVE NatSqrt(_)
NatSqrt(A) ==
    IF A = <<>> THEN [s |-> <<>>, r |-> <<>>]
    ELSE LET high == NatSqrt(Tail(A))
             rest == <<Head(A)>> \o high.r
             twice == NatMulSmall(high.s, 64)
             Trial(d) == NatMulSmall(NatAdd(twice, ToNat(d)), d)
             digit == CHOOSE d \in 0..31 :
                         /\ NatGe(rest, Trial(d))
                         /\ d < 31 => ~NatGe(rest, Trial(d + 1))
         IN [s |-> NatAdd(NatMulSmall(high.s, 32), ToNat(digit)),
             r |-> NatSub(rest, Trial(digit))]

\* To the nearest whole number of units of 2^drop, a tie to the even one: A, plus
\* something below its last bit when sticky, loses its drop >= 1 lowest bits.
RoundedShr(A, drop, sticky) ==
    LET shifted == NatShr(A, drop - 1)
        half == shifted.q # <<>> /\ Head(shifted.q) % 2 = 1
        kept == Norm(NatDivSmall(shifted.q, 2).q)
        odd == kept # <<>> /\ Head(kept) % 2 = 1
    IN IF half /\ (sticky \/ shifted.rest \/ odd) THEN NatAdd(kept, <<1>>) ELSE kept

\* A * 2^e, plus something below the last bit of A when sticky, as a float64:
\* rounded to 53 bits.
Fl(A, e, sticky) ==
    LET drop == BitLen(A) - MantissaBits
    IN IF drop <= 0 THEN [m |-> Norm(A), e |-> e]
       ELSE [m |-> RoundedShr(A, drop, sticky), e |-> e + drop]

\* The mantissa of x for the exponent low <= x.e.
Aligned(x, low) == NatShl(x.m, x.e - low)

float_add(x, y) ==
    LET least == IF x.e < y.e THEN x.e ELSE y.e
    IN Fl(NatAdd(Aligned(x, least), Aligned(y, least)), least, FALSE)

\* | x - y |
float_abs_sub(x, y) ==
    LET least == IF x.e < y.e THEN x.e ELSE y.e
        left == Aligned(x, least)
        right == Aligned(y, least)
    IN Fl(IF NatGe(left, right) THEN NatSub(left, right) ELSE NatSub(right, left),
          least, FALSE)

float_mul(x, y) == Fl(NatMul(x.m, y.m), x.e + y.e, FALSE)

\* x / f for a small whole number f: 64 more bits of the quotient are developed.
float_div(x, f) ==
    LET d == NatDivSmall(NatShl(x.m, 64), f)
    IN Fl(d.q, x.e - 64, d.r # 0)

\* sqrt(x): the mantissa is raised to 108 or 109 bits, the exponent made even.
float_sqrt(x) ==
    LET up == 108 - BitLen(x.m)
        shift == IF (x.e - up) % 2 = 0 THEN up ELSE up + 1
        root == NatSqrt(NatShl(x.m, shift))
    IN IF BitLen(x.m) = 0 THEN [m |-> <<>>, e |-> 0]
       ELSE Fl(root.s, (x.e - shift) \div 2, root.r # <<>>)

\* np.rint(x): the nearest whole number, a tie to the even one.
float_rint(x) ==
    IF x.e >= 0 THEN ToInt(Aligned(x, 0))
    ELSE ToInt(RoundedShr(x.m, -x.e, FALSE))

\* The float64 of a score held in hundredths: round(_, 2) returns the float64
\* nearest to the decimal.
float_of_score(c) == float_div([m |-> ToNat(c), e |-> 0], 100)

\* ndarray.round(2), in hundredths: np.rint(x * 100), which round divides by 100.
ndarray_round2(x) == float_rint(float_mul(x, [m |-> ToNat(100), e |-> 0]))

\* add.reduce along axis 0: the values added one after the other.
RECURSIVE float_sum(_)
float_sum(xs) ==
    IF Len(xs) = 1 THEN xs[1]
    ELSE float_add(float_sum(SubSeq(xs, 1, Len(xs) - 1)), xs[Len(xs)])

\* ndarray.mean(axis=0) of one row's scores (in hundredths), a float64.
ndarray_mean(row) ==
    float_div(float_sum([h \in DOMAIN row |-> float_of_score(row[h])]), Len(row))

\* ndarray.std(axis=0) of one row's scores: sqrt(mean(|x - mean(x)|^2)).
ndarray_std(row) ==
    LET mean == ndarray_mean(row)
        dev == [h \in DOMAIN row |-> float_abs_sub(float_of_score(row[h]), mean)]
    IN float_sqrt(float_div(float_sum([h \in DOMAIN row |-> float_mul(dev[h], dev[h])]),
                            Len(row)))

\* The scores of row i, one of each group, in the order of the groups.
RowScores(scores, i) == [h \in 1..Len(scores) |-> scores[h][i]]

\* The scores compute_cs can give in group h, and the rows of scores run can
\* collect over its groups.
ScoreValues(h) ==
    {0, 100} \cup { Round2(c, Len(dict_group_cols[h])) : c \in 0..Len(dict_group_cols[h]) }
ScoreRows == { row \in [1..NGroups -> 0..100] : \A h \in 1..NGroups : row[h] \in ScoreValues(h) }

\* mean(axis=0).round(2) and std(axis=0).round(2) of each such row, in hundredths.
RoundedRows ==
    { [row |-> row,
       mean |-> ndarray_round2(ndarray_mean(row)),
       std |-> ndarray_round2(ndarray_std(row))] : row \in ScoreRows }

Rounded(scores, i) == CHOOSE t \in RoundedRows : t.row = RowScores(scores, i)

\* np.array(cs_vals).mean(axis=0).round(2), in hundredths.
cs_means(scores, nrows) == [i \in 1..nrows |-> Rounded(scores, i).mean]

\* np.array(cs_vals).std(axis=0).round(2), in hundredths.
cs_stds(scores, nrows) == [i \in 1..nrows |-> Rounded(scores, i).std]

\* run: the groups' blocks side by side, then CS_MEAN and CS_STD, then the
\* CS_<group> and NaN_<group> columns.
Merge ==
    /\ pc = "merge"
    /\ df_imputed' = << [values |-> concat(list_df_groups, Len(df)),
                         cs_means |-> cs_means(cs_vals, Len(df)),
                         cs_stds |-> cs_stds(cs_vals, Len(df)),
                         cs |-> cs_vals,
                         labels |-> list_mv_classes] >>
    /\ pc' = "done"
    /\ UNCHANGED <<df, loc_up_mnar, min_cs, std_factor, n_neigbhors, err, d_min, up_mnar,
                   g, df_group, mv_classes, list_cs, k, call, list_df_groups,
                   list_mv_classes, cs_vals, runs, first>>

\* run is called again, on the table it returned, when no cell of it is missing
\* (same groups, same parameters).
Rerun ==
    /\ pc = "done" /\ runs = 1
    /\ Observed(df_imputed[1].values) # {}
    /\ \A i \in 1..Len(df) : n_nan(df_imputed[1].values[i]) = 0
    /\ first' = << [df |-> df, out |-> df_imputed[1]] >>
    /\ df' = df_imputed[1].values
    /\ runs' = 2
    /\ pc' = "start" /\ err' = ""
    /\ d_min' = NaN /\ up_mnar' = <<0, 0>>
    /\ g' = 0 /\ df_group' = <<>> /\ mv_classes' = <<>> /\ list_cs' = <<>> /\ k' = 0
    /\ call' = NoCall
    /\ list_df_groups' = <<>> /\ list_mv_classes' = <<>> /\ cs_vals' = <<>>
    /\ df_imputed' = <<>>
    /\ UNCHANGED <<loc_up_mnar, min_cs, std_factor, n_neigbhors>>

Next == Limits \/ Classify \/ Score \/ ImputeClass \/ AppendGroup \/ Merge \/ Rerun

Spec == Init /\ [][Next]_vars
SpecStd == InitStd /\ [][Next]_vars
SpecAny == InitAny /\ [][Next]_vars

\* ------------------------------------------------------------- claims
\* The group's block as run handed it to classify_of_mvs and impute.
GroupInput(h) == Columns(df, dict_group_cols[h])
GroupSize(h) == Len(dict_group_cols[h])

\* mv_classes, list_cs and df_group belong to group g at these places of run.
Classified == pc \in {"score", "impute", "append"}
Scored == pc \in {"impute", "append"}

\* The class the first matching rule gives a row of n cells, of which nn are
\* missing, nh observed and above up_mnar, nl observed and at or below it.
FirstMatch(nn, nh, nl, n) ==
    IF nl + nn = n THEN "MNAR"
    ELSE IF nh + nn = n THEN "MCAR"
    ELSE IF nh + nl = n THEN "NM"
    ELSE "MAR"

RowClassOk(row, label, n) ==
    /\ label \in {"MNAR", "MCAR", "MAR", "NM"}
    /\ label = FirstMatch(n_nan(row), n_higher_up_mnar(row, up_mnar),
                          n_lower_or_equal_up_mnar(row, up_mnar), n)

\* C1: for every group and every row, classify_of_mvs returns exactly one class of
\* {MNAR, MCAR, MAR, NM}, the first match of: n_low + n_nan = n is MNAR, n_high +
\* n_nan = n is MCAR, n_high + n_low = n is NM, otherwise MAR; one label per row,
\* in row order.
C1_FirstMatchClass ==
    Classified =>
        LET inp == GroupInput(g) IN
        /\ Len(mv_classes) = Len(df)
        /\ \A i \in 1..Len(df) : RowClassOk(inp[i], mv_classes[i], GroupSize(g))

\* C1 witness: a group of two rows was classified MAR and MCAR, in that order.
C1_Witness ==
    /\ pc = "score" /\ g = 1
    /\ mv_classes = <<"MAR", "MCAR">>

\* C2: a row with no missing value in a group is classified NM, also when all of
\* its values lie on one side of up_mnar.
C2_CompleteRowIsNM ==
    Classified =>
        LET inp == GroupInput(g) IN
        \A i \in 1..Len(df) : n_nan(inp[i]) = 0 => mv_classes[i] = "NM"

\* cs (in hundredths) is p / q rounded to 2 decimals: no hundredth is nearer.
RoundedTo2(cs, p, q) ==
    LET d == 100 * p - cs * q IN 2 * (IF d < 0 THEN -d ELSE d) <= q

\* The score claimed for a row of nn missing cells in a group of n columns.
ScoreOk(cs, label, nn, n) ==
    IF label = "NM" THEN cs = 100
    ELSE IF label = "MAR" THEN cs = 0
    ELSE IF label = "MCAR" THEN RoundedTo2(cs, n - nn, n)
    ELSE RoundedTo2(cs, nn, n)

RowScoreOk(row, label, cs, n) ==
    /\ ScoreOk(cs, label, n_nan(row), n)
    /\ 0 <= cs /\ cs <= 100

\* Rows of wider groups, one cell missing: the fractions 1/8, 7/8, 1/40 and 39/40
\* lie halfway between two hundredths.
WideGroups == {8, 40}
WideRow(n) == [j \in 1..n |-> IF j = 1 THEN NaN ELSE 6]

\* C3: for every group, compute_cs returns one score per row, in row order: 1 for
\* NM, 0 for MAR,
\* (n - n_nan)/n rounded to 2 decimals for MCAR, n_nan/n rounded to 2 decimals for
\* MNAR; every score lies in [0, 1].  So it is for each group of run, and for rows
\* of wider groups whose fraction lies halfway between two hundredths.
C3_ScorePerClass ==
    /\ Scored =>
        LET inp == GroupInput(g) IN
        /\ Len(list_cs) = Len(df)
        /\ \A i \in 1..Len(df) : RowScoreOk(inp[i], mv_classes[i], list_cs[i], GroupSize(g))
    /\ pc = "start" =>
        \A n \in WideGroups : \A label \in {STR_MCAR, STR_MNAR} :
            RowScoreOk(WideRow(n), label, _compute_cs(WideRow(n), label, n), n)

\* C3 witness: a group of three columns was scored, an MCAR row with one cell
\* missing at 0.67 and an MNAR row with two cells missing at 0.67.
C3_Witness ==
    /\ pc = "impute" /\ g = 1
    /\ \E i, j \in 1..Len(df) :
        /\ mv_classes[i] = "MCAR" /\ n_nan(df_group[i]) = 1 /\ list_cs[i] = 67
        /\ mv_classes[j] = "MNAR" /\ n_nan(df_group[j]) = 2 /\ list_cs[j] = 67

\* C4: while and after impute goes through the four classes of a group, a row
\* whose confidence score is below min_cs holds exactly the cells it had on input.
C4_BelowThresholdUntouched ==
    Scored =>
        LET inp == GroupInput(g) IN
        \A i \in 1..Len(df) : list_cs[i] < min_cs => df_group[i] = inp[i]

\* C4 witness: impute has gone through all four classes of a group, and a row
\* below min_cs still has its missing cell.
C4_Witness ==
    /\ pc = "append"
    /\ \E i \in 1..Len(df) : list_cs[i] < min_cs /\ n_nan(df_group[i]) > 0

\* C5: for min_cs in [0, 1], the rows classified NM or MAR hold, while and after
\* impute works on the group, exactly the cells they had on input.
C5_NmMarUntouched ==
    (Scored /\ 0 <= min_cs /\ min_cs <= 100) =>
        LET inp == GroupInput(g) IN
        \A i \in 1..Len(df) : mv_classes[i] \in {"NM", "MAR"} => df_group[i] = inp[i]

\* C5 witness: with min_cs = 0 a MAR row met the threshold (its score is 0) and was
\* passed to _impute, and impute has gone through all four classes.
C5_Witness ==
    /\ pc = "append" /\ min_cs = 0
    /\ \E i \in 1..Len(df) :
        /\ mv_classes[i] = "MAR" /\ list_cs[i] >= min_cs /\ n_nan(df_group[i]) > 0

\* C6: running run again on the table it returned, when no cell of it is missing,
\* returns what the first run returned (labels, scores, intensity columns).
C6_RerunReturnsTheSame ==
    (pc = "done" /\ runs = 2) => df_imputed[1] = first[1].out

\* C6, amended: the second run alters no intensity (every group's block stays as
\* given, the intensity columns returned are the ones given, which the first run
\* returned); it gives every row, now complete, a class other than MAR and the
\* score 0 if that class is MNAR and 1 otherwise - not the first run's scores.
C6_RerunKeepsIntensities ==
    runs = 2 =>
        /\ Scored => df_group = GroupInput(g)
        /\ pc = "done" =>
            /\ df_imputed[1].values = df
            /\ df_imputed[1].values = first[1].out.values
            /\ \A h \in 1..NGroups : \A i \in 1..Len(df) :
                /\ df_imputed[1].labels[h][i] \in {"MNAR", "MCAR", "NM"}
                /\ df_imputed[1].cs[h][i] =
                    (IF df_imputed[1].labels[h][i] = "MNAR" THEN 0 ELSE 100)

\* C6 witness: the first run filled missing cells, the second run has returned,
\* with other scores than the first.
C6_Witness ==
    /\ pc = "done" /\ runs = 2
    /\ Missing(first[1].df) # {}
    /\ Missing(df) = {}
    /\ df_imputed[1].cs # first[1].out.cs

\* C7: a block returned by the MNAR or the MCAR imputer has the rows and columns
\* of the block passed, and every cell observed in the block passed holds the same
\* value in the block returned.
C7_ObservedCellsKept ==
    call.mv_class \in {"MNAR", "MCAR"} =>
        /\ Len(call.ret) = Len(call.df)
        /\ \A p \in 1..Len(call.df) :
            /\ Len(call.ret[p]) = Len(call.df[p])
            /\ \A j \in 1..Len(call.df[p]) :
                call.df[p][j] # NaN => call.ret[p][j] = call.df[p][j]

\* C7 witness: the MCAR imputer was passed a block of two rows with a missing cell
\* and observed cells, and returned it filled.
C7_Witness ==
    /\ call.mv_class = "MCAR"
    /\ Len(call.df) = 2
    /\ isnull(call.df) # {}
    /\ isnull(call.ret) = {}

\* C8: a value the MNAR imputer writes into a missing cell lies in
\* [d_min, d_min + std], std = (up_mnar - d_min) * std_factor; with d_min = 2,
\* up_mnar = 4 and std_factor = 0.5 it lies in [2, 3].
C8_MnarFillInRange ==
    call.mv_class = "MNAR" =>
        \A c \in isnull(call.df) :
            LET v == call.ret[c[1]][c[2]]
                num == (up_mnar[1] - up_mnar[2] * d_min) * std_factor[1]
                den == up_mnar[2] * std_factor[2]
            IN /\ v # NaN
               /\ v * den >= d_min * den
               /\ v * den <= d_min * den + num
               /\ (d_min = 2 /\ up_mnar[1] = 4 * up_mnar[2] /\ std_factor[1] * 2 = std_factor[2])
                     => (2 <= v /\ v <= 3)

\* C8 witness: with d_min = 2, up_mnar = 4 and std_factor = 0.5 the MNAR imputer
\* wrote 3 into one missing cell and 2 into another.
C8_Witness ==
    /\ call.mv_class = "MNAR"
    /\ d_min = 2 /\ up_mnar[1] = 4 * up_mnar[2] /\ std_factor = <<1, 2>>
    /\ \E c, e \in isnull(call.df) : call.ret[c[1]][c[2]] = 3 /\ call.ret[e[1]][e[2]] = 2

\* up_mnar as the claim C9 gives it, from the observed cells of all group columns.
ClaimedLimits ==
    LET obs == Observed(Columns(df, get_all_group_cols)) IN
    IF obs = {} THEN <<NaN, <<0, 0>> >>
    ELSE <<SetMin(obs),
           <<loc_up_mnar[2] * SetMin(obs) + loc_up_mnar[1] * (SetMax(obs) - SetMin(obs)),
             loc_up_mnar[2]>> >>

\* C9: d_min is the minimum and d_max the maximum of the observed cells of all
\* group columns together, up_mnar = d_min + loc_up_mnar * (d_max - d_min); run
\* computes the pair once, before its loop: from then on the pair is that one, and
\* every group is classified with it (d_min = 2, d_max = 22, loc_up_mnar = 0.1 give
\* up_mnar = 4).
C9_LimitsOnceForAllGroups ==
    /\ pc # "start" =>
        LET lim == ClaimedLimits IN
        /\ d_min = lim[1]
        /\ up_mnar = lim[2]
        /\ Classified =>
             mv_classes = classify_of_mvs(GroupInput(g), lim[2], GroupSize(g))
    /\ LET lim == get_up_mnar(<< <<2, NaN, 22>> >>, <<1, 10>>) IN
        lim[1] = 2 /\ lim[2][2] > 0 /\ lim[2][1] = 4 * lim[2][2]

\* C9 witness: the loop is at the second group, with the d_min = 2 and up_mnar = 4
\* computed before the loop from a table with missing cells (d_max = 6,
\* loc_up_mnar = 0.5), and the first group's classes are kept.
C9_Witness ==
    /\ pc = "classify" /\ g = 2
    /\ Missing(df) # {}
    /\ loc_up_mnar = <<1, 2>>
    /\ d_min = 2 /\ up_mnar = <<8, 2>>
    /\ Len(list_mv_classes) = 1

\* A configuration outside the documented domain.
InvalidConfig ==
    \/ loc_up_mnar[1] < 0 \/ loc_up_mnar[1] > loc_up_mnar[2]
    \/ min_cs < 0 \/ min_cs > 100
    \/ n_neigbhors <= 0
    \/ std_factor[1] <= 0

\* C10: run rejects a configuration outside the domain (loc_up_mnar or min_cs
\* outside [0, 1], n_neighbors or std_factor not positive) before any computation:
\* it returns no table.
C10_InvalidConfigRejected ==
    InvalidConfig => (pc # "done" /\ df_imputed = <<>>)

\* A row of a group's block with no observed value.
AllMissing(row) == n_nan(row) = Len(row)

\* The cells of group h in row i of the table run returned.
OutputCells(h, i) == Columns(df_imputed[1].values, dict_group_cols[h])[i]

\* C11: a row with no observed value in a group is still given a class and a
\* confidence score, and it is surfaced as a missing result: in the table of a run
\* that completes, the row's cells of that group are still missing.
C11_AllMissingRowStaysMissing ==
    \A h \in 1..NGroups : \A i \in 1..Len(df) :
        AllMissing(GroupInput(h)[i]) =>
            /\ pc = "done" =>
                /\ df_imputed[1].labels[h][i] \in {STR_MCAR, STR_MNAR, STR_MAR, STR_NM}
                /\ df_imputed[1].cs[h][i] \in 0..100
                /\ AllMissing(OutputCells(h, i))

\* C11, amended: a row with no observed value in a group is classified MNAR with
\* the confidence score 1; it is never in a block passed to the neighbour
\* imputer; the left-censored fill writes a value of [d_min, d_min + std] into
\* every cell of it, so in the table run returns the row's cells of that group are
\* filled, not missing.  The row itself raises nothing: an exception that ends
\* the run comes from the neighbour imputer's pass.
C11_AllMissingRowIsFilled ==
    /\ call.mv_class = STR_MCAR => \A p \in 1..Len(call.df) : ~AllMissing(call.df[p])
    /\ \A h \in 1..NGroups : \A i \in 1..Len(df) :
        AllMissing(GroupInput(h)[i]) =>
            LET std == StdOf(d_min, up_mnar, std_factor)
                Drawn(v) == /\ v # NaN
                            /\ v >= d_min
                            /\ v * std[2] <= d_min * std[2] + std[1]
            IN
            /\ (Classified /\ g = h) => mv_classes[i] = STR_MNAR
            /\ (Scored /\ g = h) => list_cs[i] = 100
            /\ (pc = "append" /\ g = h) =>
                    \A j \in 1..GroupSize(h) : Drawn(df_group[i][j])
            /\ pc = "done" =>
                /\ df_imputed[1].labels[h][i] = STR_MNAR
                /\ df_imputed[1].cs[h][i] = 100
                /\ \A j \in 1..GroupSize(h) : Drawn(OutputCells(h, i)[j])
            /\ pc = "error" => err \in {"KNNImputer", "DataFrame"}

\* C11 witness: run has returned a table for an input whose first row has no
\* observed value in the three columns of the first group, and the three cells
\* are filled in the table returned.
C11_Witness ==
    /\ pc = "done" /\ runs = 1
    /\ GroupSize(1) = 3
    /\ AllMissing(GroupInput(1)[1])
    /\ n_nan(OutputCells(1, 1)) = 0

====
